---------------------------- MODULE Spec2Model ----------------------------
(***************************************************************************)
(* A model of superset/views/base.py: the error-normalisation pipeline     *)
(* (response builders, the api / handle_api_exception decorators and the   *)
(* application-wide error handlers), the memoised bootstrap payload, and   *)
(* DeleteMixin (_delete / muldelete).                                      *)
(*                                                                         *)
(* The specifications share one set of variables, each moving only the     *)
(* variables of its own subsystem:                                         *)
(*   SpecErr   requests that end in an exception (or return normally)      *)
(*   SpecBoot  cached_common_bootstrap_data                                *)
(*   SpecFlash common_bootstrap_payload                                    *)
(*   SpecDel   DeleteMixin._delete and DeleteMixin.muldelete               *)
(*   SpecHdr   apply_http_headers                                          *)
(*   SpecBuild json_error_response called with any arguments               *)
(***************************************************************************)
EXTENDS Integers, Sequences, FiniteSets, TLC

VARIABLES
    config,      \* superset_app.config: [DEBUG, SHOW_STACKTRACE], fixed at start-up
    request,     \* the request last served: [path, accept, is_json, raised]
    response,    \* what the client got for it
    logged,      \* what the handling of it logged (sequence of levels)
    clock,       \* seconds since start
    conf,        \* version of the configuration / permission state
    superseded,  \* conf version -> time it was replaced ("never" if not yet)
    cache,       \* store behind cache_manager.cache.memoize
    session,     \* session id -> pending "_flashes"
    ctx,         \* request slot -> request context (or NoCtx)
    lastCall,    \* the last cached_common_bootstrap_data call: key, time, value
    db,          \* primary keys of the records present
    pvs,         \* view-menu names that still have permission-view rows
    view_menus,  \* view-menu names present
    flashed,     \* primary keys for which a "danger" message was flashed
    batch,       \* muldelete: [items, failing, undeletable, result]
    single,      \* the last direct _delete: [pk, result]
    header_config, \* superset_app.config: the three header maps, fixed at start-up
    headers,     \* response headers of the request in hand: [phase, before, after]
    built        \* a json_error_response call: its arguments and, once made, its result

errVars  == <<request, response, logged>>
bootVars == <<clock, conf, superseded, cache, session, ctx, lastCall>>
delVars  == <<db, pvs, view_menus, flashed, batch, single>>
hdrVars  == <<header_config, headers>>
fnVars   == <<built>>
vars     == <<config, errVars, bootVars, delVars, hdrVars, fnVars>>

(***************************************************************************)
(* Bounds of the model.                                                    *)
(***************************************************************************)
MaxErrors == 2      \* longest error list a SupersetErrorsException carries

(***************************************************************************)
(* Dictionaries are functions; {} and None are both the empty function,    *)
(* which is what `not payload` tests.                                      *)
(***************************************************************************)
EmptyDict == <<>>

Falsy(d) == DOMAIN d = {}

Update(a, b) ==
    [k \in (DOMAIN a) \cup (DOMAIN b) |-> IF k \in DOMAIN b THEN b[k] ELSE a[k]]

(***************************************************************************)
(* Exception classes.  Base gives each class its direct base class; Mro is *)
(* the chain up to Exception (all these classes inherit singly).           *)
(***************************************************************************)
Classes ==
    { "Exception", "ValueError",
      "JWTExtendedException", "NoAuthorizationError",
      "SupersetException", "SupersetErrorException", "SupersetSecurityException",
      "SupersetErrorsException", "CommandException", "CommandInvalidError",
      "HTTPException", "NotFound", "MethodNotAllowed", "InternalServerError",
      "BadRequest", "CSRFError",
      "SQLAlchemyError", "DatabaseError", "IntegrityError", "DataError" }

Base(c) ==
    CASE c = "NoAuthorizationError"      -> "JWTExtendedException"
      [] c = "SupersetErrorException"    -> "SupersetException"
      [] c = "SupersetSecurityException" -> "SupersetErrorException"
      [] c = "SupersetErrorsException"   -> "SupersetException"
      [] c = "CommandException"          -> "SupersetException"
      [] c = "CommandInvalidError"       -> "CommandException"
      [] c \in {"NotFound", "MethodNotAllowed", "InternalServerError", "BadRequest"}
                                         -> "HTTPException"
      [] c = "CSRFError"                 -> "BadRequest"
      [] c = "DatabaseError"             -> "SQLAlchemyError"
      [] c \in {"IntegrityError", "DataError"} -> "DatabaseError"
      [] OTHER                           -> "Exception"

RECURSIVE Mro(_)
Mro(c) == IF c = "Exception" THEN <<c>> ELSE <<c>> \o Mro(Base(c))

IsInstance(ex, c) == \E i \in 1..Len(Mro(ex.cls)) : Mro(ex.cls)[i] = c

(***************************************************************************)
(* SupersetError values and the exceptions a handler may raise.            *)
(***************************************************************************)
SupersetError(message, error_type, level, extra) ==
    [message |-> message, error_type |-> error_type, level |-> level, extra |-> extra]

Errors ==
    { SupersetError("table missing", "TABLE_DOES_NOT_EXIST_ERROR", "ERROR", EmptyDict),
      SupersetError("no access", "DATASOURCE_SECURITY_ACCESS_ERROR", "WARNING",
                    [link |-> "https://example/perm"]) }

RECURSIVE SeqsUpTo(_, _)
SeqsUpTo(S, n) ==
    IF n = 0 THEN {<<>>}
    ELSE LET shorter == SeqsUpTo(S, n - 1)
         IN  shorter \cup {Append(s, x) : s \in {t \in shorter : Len(t) = n - 1}, x \in S}

Statuses == {400, 403, 422, 500}

Payloads == {EmptyDict, [tables |-> "t1"]}

Exc(cls, status, code, errors, payload, message, normalized) ==
    [cls |-> cls, status |-> status, code |-> code, errors |-> errors,
     payload |-> payload, message |-> message, normalized |-> normalized]

Plain(cls, message) == Exc(cls, 0, 0, <<>>, EmptyDict, message, EmptyDict)

Exceptions ==
    {Plain("NoAuthorizationError", "Missing Authorization Header")}
    \cup {Exc("SupersetSecurityException", s, 0, <<e>>, p, e.message, EmptyDict) :
              s \in Statuses, e \in Errors, p \in Payloads}
    \cup {Exc("SupersetErrorsException", s, 0, es, EmptyDict, "errors", EmptyDict) :
              s \in Statuses, es \in SeqsUpTo(Errors, MaxErrors)}
    \cup {Exc("SupersetErrorException", s, 0, <<e>>, EmptyDict, e.message, EmptyDict) :
              s \in Statuses, e \in Errors}
    \cup {Exc("SupersetException", s, 0, <<>>, EmptyDict, "domain failure", EmptyDict) :
              s \in Statuses}
    \cup {Exc("CommandException", s, 0, <<>>, EmptyDict, "command failed", EmptyDict) :
              s \in Statuses}
    \cup {Exc("CommandInvalidError", 422, 0, <<>>, EmptyDict, "invalid parameters",
              [name |-> "required"])}
    \cup {Exc("NotFound", 0, 404, <<>>, EmptyDict, "Not Found", EmptyDict),
          Exc("MethodNotAllowed", 0, 405, <<>>, EmptyDict, "Method Not Allowed", EmptyDict),
          Exc("InternalServerError", 0, 500, <<>>, EmptyDict, "Internal Server Error", EmptyDict),
          Exc("CSRFError", 0, 400, <<>>, EmptyDict, "The CSRF token has expired.", EmptyDict)}
    \cup {Plain(c, "constraint violated") : c \in {"IntegrityError", "DatabaseError", "DataError"}}
    \cup {Plain("Exception", "boom"), Plain("ValueError", "bad value")}

NoException == Plain("None", "")

(***************************************************************************)
(* Requests.  accept is the set of media ranges of the Accept header;      *)
(* `"text/html" in request.accept_mimetypes` matches wildcards as well.    *)
(***************************************************************************)
Accepts ==
    { {}, {"application/json"}, {"text/html"},
      {"text/html", "application/json"}, {"*/*"} }

ValueMatches(value, item) == item = "*/*" \/ item = "text/*" \/ item = value

AcceptsHtml(rq) == \E item \in rq.accept : ValueMatches("text/html", item)

Requests == [accept : Accepts, is_json : BOOLEAN]

(***************************************************************************)
(* Response Builder.                                                       *)
(***************************************************************************)
Response(kind, body, status, mimetype) ==
    [kind |-> kind, body |-> body, status |-> status, mimetype |-> mimetype]

NoLink == ""

error_msg_from_exception(ex) == ex.message

get_error_msg ==
    IF config.SHOW_STACKTRACE THEN "Traceback (most recent call last): ..."
    ELSE "FATAL ERROR \nStacktrace is hidden. Change the SHOW_STACKTRACE configuration setting to enable it"

\* mutant: the status argument not passed on to Response
json_error_response_StatusDropped(msg, status, payload, link) ==
    LET p1 == IF Falsy(payload) THEN [error |-> msg] ELSE payload
        p2 == IF link # NoLink THEN Update(p1, [link |-> link]) ELSE p1
    IN  Response("json", p2, 200, "application/json")

json_error_response(msg, status, payload, link) ==
    LET p1 == IF Falsy(payload) THEN [error |-> msg] ELSE payload
        p2 == IF link # NoLink THEN Update(p1, [link |-> link]) ELSE p1
    IN  Response("json", p2, status, "application/json")

asdict(error) ==
    [message |-> error.message, error_type |-> error.error_type,
     level |-> error.level, extra |-> error.extra]

json_errors_response(errors, status, payload) ==
    LET p1 == IF Falsy(payload) THEN EmptyDict ELSE payload
        p2 == Update(p1, [errors |-> [i \in 1..Len(errors) |-> asdict(errors[i])]])
    IN  Response("json", p2, status, "application/json; charset=utf-8")

json_success(json_msg, status) ==
    Response("json", [raw |-> json_msg], status, "application/json")

send_file(asset, status) == Response("html", [asset |-> asset], status, "text/html")

redirect(location) == Response("redirect", [location |-> location], 302, "text/html")

get_error_level_from_status_code(status) ==
    IF status < 400 THEN "INFO"
    ELSE IF status < 500 THEN "WARNING"
    ELSE "ERROR"

(***************************************************************************)
(* The outcome of running a (possibly wrapped) handler: it returns a       *)
(* response or raises, and has logged a sequence of levels on the way.     *)
(***************************************************************************)
Returns(resp, log) == [kind |-> "return", resp |-> resp, ex |-> NoException, log |-> log]

Raises(ex, log) == [kind |-> "raise", resp |-> Response("none", EmptyDict, 0, ""), ex |-> ex, log |-> log]

\* the business handler f: raises ex, or returns json_success when ex = NoException
f(ex) ==
    IF ex = NoException THEN Returns(json_success("{}", 200), <<>>)
    ELSE Raises(ex, <<>>)

(***************************************************************************)
(* Logging: an entry is the level and the literal message of the call      *)
(* ("ex" when the exception object itself is the message).                 *)
(***************************************************************************)
Log(level, msg) == [level |-> level, msg |-> msg]

(***************************************************************************)
(* The decorators.  Each takes the outcome of the handler it wraps.        *)
(***************************************************************************)
\* mutant: only the authorization failure caught, anything else raised again
api_ReraisingUnanticipated(out) ==
    IF out.kind = "return" THEN out
    ELSE IF IsInstance(out.ex, "NoAuthorizationError")
         THEN Returns(json_error_response(get_error_msg, 401, EmptyDict, NoLink),
                      Append(out.log, Log("warning", "Api failed- no authorization")))
    ELSE Raises(out.ex, Append(out.log, Log("exception", "ex")))

api(out) ==
    IF out.kind = "return" THEN out
    ELSE IF IsInstance(out.ex, "NoAuthorizationError")
         THEN Returns(json_error_response(get_error_msg, 401, EmptyDict, NoLink),
                      Append(out.log, Log("warning", "Api failed- no authorization")))
    ELSE Returns(json_error_response(get_error_msg, 500, EmptyDict, NoLink),
                 Append(out.log, Log("exception", "ex")))

\* mutant: the catch-all clause listed before the storage-layer clause
ExceptClauses_CatchAllBeforeStorage ==
    << "SupersetSecurityException", "SupersetErrorsException", "SupersetErrorException",
       "SupersetException", "HTTPException", "Exception", "IntegrityError" >>

\* mutant: the SupersetErrorException clause listed before its subclass's clause
ExceptClauses_ErrorBeforeSecurity ==
    << "SupersetErrorException", "SupersetSecurityException", "SupersetErrorsException",
       "SupersetException", "HTTPException", "IntegrityError", "Exception" >>

\* the except clauses of handle_api_exception, in the order the source lists them,
\* each named by the (first) class it catches
ExceptClauses ==
    << "SupersetSecurityException", "SupersetErrorsException", "SupersetErrorException",
       "SupersetException", "HTTPException", "IntegrityError", "Exception" >>

ClauseCatches(clause, ex) ==
    IF clause = "IntegrityError"
    THEN \/ IsInstance(ex, "IntegrityError")
         \/ IsInstance(ex, "DatabaseError")
         \/ IsInstance(ex, "DataError")
    ELSE IsInstance(ex, clause)

ClauseBody(clause, out) ==
    LET ex == out.ex IN
    CASE clause = "SupersetSecurityException" ->
            Returns(json_errors_response(<<ex.errors[1]>>, ex.status, ex.payload),
                    Append(out.log, Log("warning", "SupersetSecurityException")))
      [] clause = "SupersetErrorsException" ->
            Returns(json_errors_response(ex.errors, ex.status, EmptyDict),
                    Append(out.log, Log("warning", "ex")))
      [] clause = "SupersetErrorException" ->
            Returns(json_errors_response(<<ex.errors[1]>>, ex.status, EmptyDict),
                    Append(out.log, Log("warning", "SupersetErrorException")))
      [] clause = "SupersetException" ->
            Returns(json_error_response(error_msg_from_exception(ex), ex.status,
                                        EmptyDict, NoLink),
                    IF ex.status >= 500 THEN Append(out.log, Log("exception", "ex"))
                    ELSE out.log)
      [] clause = "HTTPException" ->
            Returns(json_error_response(error_msg_from_exception(ex), ex.code,
                                        EmptyDict, NoLink),
                    Append(out.log, Log("exception", "ex")))
      [] clause = "IntegrityError" ->
            Returns(json_error_response(error_msg_from_exception(ex), 422,
                                        EmptyDict, NoLink),
                    Append(out.log, Log("exception", "ex")))
      [] clause = "Exception" ->
            Returns(json_error_response(error_msg_from_exception(ex), 500,
                                        EmptyDict, NoLink),
                    Append(out.log, Log("exception", "ex")))

RECURSIVE FirstCatching(_, _)
FirstCatching(clauses, ex) ==
    IF clauses = <<>> THEN "none"
    ELSE IF ClauseCatches(Head(clauses), ex) THEN Head(clauses)
    ELSE FirstCatching(Tail(clauses), ex)

handle_api_exception(out) ==
    IF out.kind = "return" THEN out
    ELSE LET clause == FirstCatching(ExceptClauses, out.ex)
         IN  IF clause = "none" THEN out ELSE ClauseBody(clause, out)

(***************************************************************************)
(* The application-wide error handlers.                                    *)
(***************************************************************************)
show_superset_error(ex, rq) ==
    Returns(json_errors_response(<<ex.errors[1]>>, ex.status, EmptyDict),
            <<Log("warning", "SupersetErrorException")>>)

show_superset_errors(ex, rq) ==
    Returns(json_errors_response(ex.errors, ex.status, EmptyDict),
            <<Log("warning", "SupersetErrorsException")>>)

show_http_exception(ex, rq) ==
    IF AcceptsHtml(rq) /\ ~config.DEBUG /\ ex.code \in {404, 500}
    THEN Returns(send_file(IF ex.code = 404 THEN "404.html" ELSE "500.html", ex.code),
                 <<Log("warning", "HTTPException")>>)
    ELSE Returns(json_errors_response(
                     <<SupersetError(error_msg_from_exception(ex),
                                     "GENERIC_BACKEND_ERROR", "ERROR", EmptyDict)>>,
                     IF ex.code # 0 THEN ex.code ELSE 500, EmptyDict),
                 <<Log("warning", "HTTPException")>>)

refresh_csrf_token(ex, rq) ==
    IF rq.is_json
    THEN LET out == show_http_exception(ex, rq)
         IN  [out EXCEPT !.log = <<Log("warning", "Refresh CSRF token error")>> \o out.log]
    ELSE Returns(redirect("login"), <<Log("warning", "Refresh CSRF token error")>>)

show_command_errors(ex, rq) ==
    IF AcceptsHtml(rq) /\ ~config.DEBUG
    THEN Returns(send_file("500.html", 500), <<Log("warning", "CommandException")>>)
    ELSE Returns(json_errors_response(
                     <<SupersetError(ex.message, "GENERIC_COMMAND_ERROR",
                                     get_error_level_from_status_code(ex.status),
                                     IF IsInstance(ex, "CommandInvalidError")
                                     THEN ex.normalized ELSE EmptyDict)>>,
                     ex.status, EmptyDict),
                 <<Log("warning", "CommandException")>>)

\* mutant: the HTML fallback taken without looking at DEBUG
show_unexpected_exception_IgnoringDebug(ex, rq) ==
    IF AcceptsHtml(rq)
    THEN Returns(send_file("500.html", 500), <<Log("exception", "ex")>>)
    ELSE Returns(json_errors_response(
                     <<SupersetError(error_msg_from_exception(ex),
                                     "GENERIC_BACKEND_ERROR", "ERROR", EmptyDict)>>,
                     500, EmptyDict),
                 <<Log("exception", "ex")>>)

show_unexpected_exception(ex, rq) ==
    IF AcceptsHtml(rq) /\ ~config.DEBUG
    THEN Returns(send_file("500.html", 500), <<Log("exception", "ex")>>)
    ELSE Returns(json_errors_response(
                     <<SupersetError(error_msg_from_exception(ex),
                                     "GENERIC_BACKEND_ERROR", "ERROR", EmptyDict)>>,
                     500, EmptyDict),
                 <<Log("exception", "ex")>>)

(***************************************************************************)
(* The Error Dispatcher: the classes superset_app.errorhandler registers,  *)
(* and the look-up of the handler of the first registered class along the  *)
(* exception's MRO.                                                        *)
(***************************************************************************)
\* mutant: the CommandException handler not registered
Registered_WithoutCommand ==
    { "SupersetErrorException", "SupersetErrorsException", "CSRFError",
      "HTTPException", "Exception" }

Registered ==
    { "SupersetErrorException", "SupersetErrorsException", "CSRFError",
      "HTTPException", "CommandException", "Exception" }

RECURSIVE FirstRegistered(_)
FirstRegistered(mro) ==
    IF Head(mro) \in Registered THEN Head(mro) ELSE FirstRegistered(Tail(mro))

FindErrorHandler(ex) == FirstRegistered(Mro(ex.cls))

RunHandler(cls, ex, rq) ==
    CASE cls = "SupersetErrorException"  -> show_superset_error(ex, rq)
      [] cls = "SupersetErrorsException" -> show_superset_errors(ex, rq)
      [] cls = "CSRFError"               -> refresh_csrf_token(ex, rq)
      [] cls = "HTTPException"           -> show_http_exception(ex, rq)
      [] cls = "CommandException"        -> show_command_errors(ex, rq)
      [] cls = "Exception"               -> show_unexpected_exception(ex, rq)

Dispatch(out, rq) ==
    IF out.kind = "return" THEN out
    ELSE LET h == RunHandler(FindErrorHandler(out.ex), out.ex, rq)
         IN  [h EXCEPT !.log = out.log \o h.log]

(***************************************************************************)
(* Serving one request.  The view method is undecorated, or wrapped by     *)
(* api, by handle_api_exception, or by api(handle_api_exception(.)); what  *)
(* still escapes the view reaches the dispatcher.                          *)
(***************************************************************************)
Paths == {"undecorated", "api", "handle_api_exception", "api+handle_api_exception"}

View(path, ex) ==
    CASE path = "undecorated"              -> f(ex)
      [] path = "api"                      -> api(f(ex))
      [] path = "handle_api_exception"     -> handle_api_exception(f(ex))
      [] path = "api+handle_api_exception" -> api(handle_api_exception(f(ex)))

Idle == [path |-> "none", accept |-> {}, is_json |-> FALSE, raised |-> NoException]

Serve(path, ex, rq) ==
    LET out == Dispatch(View(path, ex), rq)
    IN  /\ request = Idle
        /\ request' = [path |-> path, accept |-> rq.accept, is_json |-> rq.is_json,
                       raised |-> ex]
        /\ response' = out.resp
        /\ logged' = out.log
        /\ UNCHANGED <<config, hdrVars, fnVars, bootVars, delVars>>

ServeUndecorated ==
    \E ex \in Exceptions \cup {NoException}, rq \in Requests : Serve("undecorated", ex, rq)

ServeApi ==
    \E ex \in Exceptions \cup {NoException}, rq \in Requests : Serve("api", ex, rq)

ServeHandleApiException ==
    \E ex \in Exceptions \cup {NoException}, rq \in Requests :
        Serve("handle_api_exception", ex, rq)

ServeApiHandleApiException ==
    \E ex \in Exceptions \cup {NoException}, rq \in Requests :
        Serve("api+handle_api_exception", ex, rq)

\* the response has gone out; the worker waits for the next request
SendResponse ==
    /\ request # Idle
    /\ request' = Idle
    /\ response' = Response("none", EmptyDict, 0, "")
    /\ logged' = <<>>
    /\ UNCHANGED <<config, hdrVars, fnVars, bootVars, delVars>>

NextErr ==
    \/ ServeUndecorated
    \/ ServeApi
    \/ ServeHandleApiException
    \/ ServeApiHandleApiException
    \/ SendResponse

(***************************************************************************)
(* The bootstrap payload.  cached_common_bootstrap_data is memoised for    *)
(* Timeout seconds per (user_id, locale); the store keeps, per key, the    *)
(* value and the time it was put there.                                    *)
(***************************************************************************)
\* mutant: memoize(timeout=120)
Timeout_Doubled == 2 * 60

Timeout == 60

MaxClock == 90      \* the clock stops here
MaxConf == 1        \* configuration / permission changes modelled
MaxFlash == 2       \* messages flashed per session
MaxCalls == 2       \* common_bootstrap_payload calls per request

Steps == {30, 60}   \* seconds that pass between two events

Users == {1, 2}

Locales == {"en", "fr"}

Keys == Users \X Locales

NoValue == [conf |-> -1, user |-> 0, locale |-> ""]

NoEntry == [value |-> NoValue, at |-> -1]

\* mutant: the locale left out of the memoisation key
MemoKey_WithoutLocale(user_id, locale) == <<user_id, "en">>

MemoKey(user_id, locale) == <<user_id, locale>>

\* the body of cached_common_bootstrap_data: what it reads of the ambient
\* configuration (conf, feature flags, menu_data(g.user)) and its locale argument
ComputeBootstrap(user_id, locale) == [conf |-> conf, user |-> user_id, locale |-> locale]

\* an entry put at time t is served while less than Timeout seconds old, and not
\* when more than Timeout seconds old; at exactly Timeout seconds the store may
\* or may not have dropped it yet
MayHit(entry) == entry # NoEntry /\ clock <= entry.at + Timeout

MayMiss(entry) == entry = NoEntry \/ clock >= entry.at + Timeout

\* cached_common_bootstrap_data(user_id, locale): the value returned and the store
\* afterwards, for either way the look-up may go
CachedCall(user_id, locale, hit) ==
    LET k == MemoKey(user_id, locale) IN
    IF hit
    THEN [value |-> cache[k].value, cache |-> cache, hit |-> TRUE, key |-> <<user_id, locale>>]
    ELSE LET v == ComputeBootstrap(user_id, locale)
         IN  [value |-> v, cache |-> [cache EXCEPT ![k] = [value |-> v, at |-> clock]],
              hit |-> FALSE, key |-> <<user_id, locale>>]

CanCall(user_id, locale, hit) ==
    IF hit THEN MayHit(cache[MemoKey(user_id, locale)])
    ELSE MayMiss(cache[MemoKey(user_id, locale)])

Record(call) == [key |-> call.key, at |-> clock, value |-> call.value, hit |-> call.hit]

Tick ==
    \E d \in Steps :
        /\ clock + d <= MaxClock
        /\ clock' = clock + d
        /\ UNCHANGED <<config, hdrVars, fnVars, errVars, delVars, conf, superseded, cache, session, ctx, lastCall>>

ChangeConf ==
    /\ conf < MaxConf
    /\ conf' = conf + 1
    /\ superseded' = [superseded EXCEPT ![conf] = clock]
    /\ UNCHANGED <<config, hdrVars, fnVars, errVars, delVars, clock, cache, session, ctx, lastCall>>

CallCached ==
    \E u \in Users, l \in Locales, hit \in BOOLEAN :
        /\ CanCall(u, l, hit)
        /\ LET call == CachedCall(u, l, hit)
           IN  /\ cache' = call.cache
               /\ lastCall' = Record(call)
        /\ UNCHANGED <<config, hdrVars, fnVars, errVars, delVars, clock, conf, superseded, session, ctx>>

NextBoot == Tick \/ ChangeConf \/ CallCached

(***************************************************************************)
(* Flash messages.  A session holds the pending "_flashes"; a request      *)
(* context keeps what get_flashed_messages read for the request.           *)
(***************************************************************************)
Sessions == {1, 2}

UserOf(s) == 1      \* both sessions are logged in as the same user

Message(s, n) == [category |-> "danger", owner |-> s, n |-> n]

NoCtx == [active |-> FALSE, locale |-> "", read |-> FALSE, flashes |-> <<>>, payloads |-> <<>>]

\* flask.get_flashed_messages(with_categories=True) in the request of session s:
\* the first call of a request pops "_flashes" from the session and keeps the
\* list on the request context; later calls of the request return that list
get_flashed_messages(s) ==
    IF ctx[s].read
    THEN [flashes |-> ctx[s].flashes, pending |-> session[s].pending]
    ELSE [flashes |-> session[s].pending, pending |-> <<>>]

\* mutant: the memoised value is the merged payload, flash messages included
common_bootstrap_payload_CachingFlashes(s, hit) ==
    LET call == CachedCall(UserOf(s), ctx[s].locale, hit)
        got  == get_flashed_messages(s)
        k    == MemoKey(UserOf(s), ctx[s].locale)
        full == IF hit THEN call.value
                ELSE Update(call.value, [flash_messages |-> got.flashes])
    IN  [payload |-> full,
         call |-> [call EXCEPT !.value = full,
                               !.cache = IF hit THEN @ ELSE [@ EXCEPT ![k].value = full]],
         flashes |-> got.flashes, pending |-> got.pending]

\* common_bootstrap_payload() in the request of session s
common_bootstrap_payload(s, hit) ==
    LET call == CachedCall(UserOf(s), ctx[s].locale, hit)
        got  == get_flashed_messages(s)
    IN  [payload |-> Update(call.value, [flash_messages |-> got.flashes]),
         call |-> call, flashes |-> got.flashes, pending |-> got.pending]

BeginRequest ==
    \E s \in Sessions, l \in Locales :
        /\ ~ctx[s].active
        /\ ctx' = [ctx EXCEPT ![s] = [NoCtx EXCEPT !.active = TRUE, !.locale = l]]
        /\ UNCHANGED <<config, hdrVars, fnVars, errVars, delVars, clock, conf, superseded, cache, session, lastCall>>

Flash ==
    \E s \in Sessions :
        /\ session[s].n < MaxFlash
        /\ session' = [session EXCEPT ![s] =
                          [pending |-> Append(@.pending, Message(s, @.n + 1)), n |-> @.n + 1]]
        /\ UNCHANGED <<config, hdrVars, fnVars, errVars, delVars, clock, conf, superseded, cache, ctx, lastCall>>

CallCommonBootstrapPayload ==
    \E s \in Sessions, hit \in BOOLEAN :
        /\ ctx[s].active
        /\ Len(ctx[s].payloads) < MaxCalls
        /\ CanCall(UserOf(s), ctx[s].locale, hit)
        /\ LET r == common_bootstrap_payload(s, hit)
           IN  /\ cache' = r.call.cache
               /\ lastCall' = Record(r.call)
               /\ session' = [session EXCEPT ![s].pending = r.pending]
               /\ ctx' = [ctx EXCEPT ![s].read = TRUE, ![s].flashes = r.flashes,
                                     ![s].payloads = Append(@, r.payload)]
        /\ UNCHANGED <<config, hdrVars, fnVars, errVars, delVars, clock, conf, superseded>>

EndRequest ==
    \E s \in Sessions :
        /\ ctx[s].active
        /\ ctx' = [ctx EXCEPT ![s] = NoCtx]
        /\ UNCHANGED <<config, hdrVars, fnVars, errVars, delVars, clock, conf, superseded, cache, session, lastCall>>

NextFlash == BeginRequest \/ Flash \/ CallCommonBootstrapPayload \/ EndRequest

(***************************************************************************)
(* DeleteMixin.  A record is known by its primary key; its view-menu is    *)
(* named by item.get_perm(), which embeds the key, so it is the record's   *)
(* own.  pvs[vm] counts the permission-view rows of view-menu vm.          *)
(***************************************************************************)
NRecords == 3       \* records in the table
MaxPvs == 2         \* permission-view rows per view-menu

PKs == 1..NRecords

get_perm(pk) == pk

DelState(d, p, v, fl, raised) ==
    [db |-> d, pvs |-> p, view_menus |-> v, flashed |-> fl, raised |-> raised]

\* mutant: the permission rows and the view-menu deleted whatever
\* self.datamodel.delete(item) returned
_delete_PermissionsRegardless(st, pk, failing, undeletable) ==
    IF pk \notin st.db
    THEN [st EXCEPT !.raised = "NotFound"]
    ELSE IF pk \in failing
    THEN [st EXCEPT !.flashed = @ \cup {<<pk, "pre_delete failed">>}]
    ELSE [st EXCEPT !.db = IF pk \in undeletable THEN @ ELSE @ \ {pk},
                    !.pvs = [@ EXCEPT ![get_perm(pk)] = 0],
                    !.view_menus = @ \ {get_perm(pk)},
                    !.flashed = @ \cup {<<pk, IF pk \in undeletable
                                             THEN "delete failed" ELSE "deleted">>}]

\* self.pre_delete(item) raises for the records in failing;
\* self.datamodel.delete(item) returns False for the records in undeletable
_delete(st, pk, failing, undeletable) ==
    IF pk \notin st.db
    THEN [st EXCEPT !.raised = "NotFound"]
    ELSE IF pk \in failing
    THEN [st EXCEPT !.flashed = @ \cup {<<pk, "pre_delete failed">>}]
    ELSE LET has_view_menu == get_perm(pk) \in st.view_menus
         IN  IF pk \notin undeletable
             THEN [st EXCEPT !.db = @ \ {pk},
                             !.pvs = IF has_view_menu
                                     THEN [@ EXCEPT ![get_perm(pk)] = 0] ELSE @,
                             !.view_menus = @ \ {get_perm(pk)},
                             !.flashed = @ \cup {<<pk, "deleted">>}]
             ELSE [st EXCEPT !.flashed = @ \cup {<<pk, "delete failed">>}]

\* mutant: the loop left at the first record whose pre_delete fails
RECURSIVE muldelete_loop_StoppingAtFailure(_, _, _, _, _)
muldelete_loop_StoppingAtFailure(st, items, i, failing, undeletable) ==
    IF i > Len(items) \/ st.raised # "no" THEN st
    ELSE IF items[i] \in failing
    THEN [st EXCEPT !.flashed = @ \cup {<<items[i], "pre_delete failed">>}]
    ELSE muldelete_loop_StoppingAtFailure(_delete(st, items[i], failing, undeletable),
                                          items, i + 1, failing, undeletable)

\* the loop of muldelete over items[i..]: an exception out of _delete ends it
RECURSIVE muldelete_loop(_, _, _, _, _)
muldelete_loop(st, items, i, failing, undeletable) ==
    IF i > Len(items) \/ st.raised # "no" THEN st
    ELSE IF items[i] \in failing
    THEN muldelete_loop([st EXCEPT !.flashed = @ \cup {<<items[i], "pre_delete failed">>}],
                        items, i + 1, failing, undeletable)
    ELSE muldelete_loop(_delete(st, items[i], failing, undeletable),
                        items, i + 1, failing, undeletable)

muldelete(st, items, failing, undeletable) ==
    IF items = <<>> THEN [st EXCEPT !.raised = "NotFound"]
    ELSE muldelete_loop(st, items, 1, failing, undeletable)

\* the lists of distinct present records a request may select, the empty one included
RECURSIVE Selections(_)
Selections(S) ==
    IF S = {} THEN {<<>>}
    ELSE {<<>>} \cup UNION {{<<x>> \o t : t \in Selections(S \ {x})} : x \in S}

Elems(seq) == {seq[i] : i \in 1..Len(seq)}

NoBatch == [items |-> <<>>, failing |-> {}, undeletable |-> {}, result |-> "idle"]

NoSingle == [pk |-> 0, pre_fails |-> FALSE, delete_fails |-> FALSE, result |-> "idle"]

Current == DelState(db, pvs, view_menus, {}, "no")

Commit(st) ==
    /\ db' = st.db
    /\ pvs' = st.pvs
    /\ view_menus' = st.view_menus
    /\ flashed' = st.flashed

Muldelete ==
    \E items \in Selections(db) :
      \E failing \in SUBSET Elems(items) :
        \E undeletable \in SUBSET (Elems(items) \ failing) :
          LET st == muldelete(Current, items, failing, undeletable)
          IN  /\ Commit(st)
              /\ batch' = [items |-> items, failing |-> failing, undeletable |-> undeletable,
                           result |-> IF st.raised = "no" THEN "redirect" ELSE st.raised]
              /\ single' = NoSingle
              /\ UNCHANGED <<config, hdrVars, fnVars, errVars, bootVars>>

Delete ==
    \E pk \in PKs, pre_fails \in BOOLEAN, delete_fails \in BOOLEAN :
        LET st == _delete(Current, pk, IF pre_fails THEN {pk} ELSE {},
                          IF delete_fails THEN {pk} ELSE {})
        IN  /\ Commit(st)
            /\ single' = [pk |-> pk, pre_fails |-> pre_fails, delete_fails |-> delete_fails,
                          result |-> IF st.raised = "no" THEN "done" ELSE st.raised]
            /\ batch' = NoBatch
            /\ UNCHANGED <<config, hdrVars, fnVars, errVars, bootVars>>

NextDel == Muldelete \/ Delete

(***************************************************************************)
(* Response headers.  A header map of the configuration is a dictionary    *)
(* from header names to values; the headers of a response hold, per name,  *)
(* the values sent for it, in order (several lines may carry one name).    *)
(***************************************************************************)
HeaderNames == {"X-Frame-Options", "X-Powered-By"}

HeaderValues == {"v1", "v2"}

HeaderMaps == UNION {[ks -> HeaderValues] : ks \in SUBSET HeaderNames}

NoHeaders == [k \in HeaderNames |-> <<>>]

\* headers the view itself may have set on its response
ViewHeaders == {[k \in HeaderNames |-> IF k \in DOMAIN m THEN <<m[k]>> ELSE <<>>] : m \in HeaderMaps}

\* Headers.extend(d): every item of d is added as a further line
extend(h, d) == [k \in HeaderNames |-> IF k \in DOMAIN d THEN Append(h[k], d[k]) ELSE h[k]]

\* `k in response.headers`
contains(h, k) == h[k] # <<>>

\* response.headers[k] = v
setitem(h, k, v) == [h EXCEPT ![k] = <<v>>]

\* {**OVERRIDE_HTTP_HEADERS, **HTTP_HEADERS}: the right operand wins a shared key
MergedHeaders(cfg) == Update(cfg.OVERRIDE_HTTP_HEADERS, cfg.HTTP_HEADERS)

\* the loop over DEFAULT_HTTP_HEADERS.items(); each turn reads and writes its own key only
RECURSIVE apply_defaults(_, _, _)
apply_defaults(h, defaults, todo) ==
    IF todo = {} THEN h
    ELSE LET k == CHOOSE x \in todo : TRUE
             h1 == IF ~contains(h, k) THEN setitem(h, k, defaults[k]) ELSE h
         IN  apply_defaults(h1, defaults, todo \ {k})

apply_http_headers(h, cfg) ==
    LET extended == extend(h, MergedHeaders(cfg))
    IN  apply_defaults(extended, cfg.DEFAULT_HTTP_HEADERS, DOMAIN cfg.DEFAULT_HTTP_HEADERS)

NoRequestHeaders == [phase |-> "none", before |-> NoHeaders, after |-> NoHeaders]

\* a view has returned its response, with the headers it set
ViewReturns ==
    \E h \in ViewHeaders :
        /\ headers.phase = "none"
        /\ headers' = [phase |-> "returned", before |-> h, after |-> h]
        /\ UNCHANGED <<config, errVars, bootVars, delVars, fnVars, header_config>>

\* the after_request hook
ApplyHttpHeaders ==
    /\ headers.phase = "returned"
    /\ headers' = [headers EXCEPT !.phase = "sent",
                                  !.after = apply_http_headers(headers.before, header_config)]
    /\ UNCHANGED <<config, errVars, bootVars, delVars, fnVars, header_config>>

\* the response has gone out
HeadersSent ==
    /\ headers.phase = "sent"
    /\ headers' = NoRequestHeaders
    /\ UNCHANGED <<config, errVars, bootVars, delVars, fnVars, header_config>>

NextHdr == ViewReturns \/ ApplyHttpHeaders \/ HeadersSent

(***************************************************************************)
(* json_error_response on its own: called with any message, status,        *)
(* payload and link.  A payload of None and a payload of {} are both       *)
(* EmptyDict (the code tests `not payload`); a link of None is NoLink.     *)
(***************************************************************************)
Messages == {"not found", "timeout"}

BuildStatuses == {400, 401, 422, 500}

BuildPayloads ==
    {EmptyDict, [tables |-> "t1"], [error |-> "from payload"],
     [tables |-> "t1", link |-> "http://old"]}

Links == {NoLink, "http://docs"}

Arguments == [msg : Messages, status : BuildStatuses, payload : BuildPayloads, link : Links]

NotBuilt == Response("none", EmptyDict, 0, "")

\* a caller makes up its arguments
PrepareCall ==
    \E a \in Arguments :
        /\ built.phase = "returned"
        /\ built' = [phase |-> "called", args |-> a, resp |-> NotBuilt]
        /\ UNCHANGED <<config, errVars, bootVars, delVars, hdrVars>>

CallJsonErrorResponse ==
    /\ built.phase = "called"
    /\ built' = [built EXCEPT !.phase = "returned",
                              !.resp = json_error_response(built.args.msg, built.args.status,
                                                           built.args.payload, built.args.link)]
    /\ UNCHANGED <<config, errVars, bootVars, delVars, hdrVars>>

NextBuild == PrepareCall \/ CallJsonErrorResponse

(***************************************************************************)
(* The initial state: the application has started with some configuration, *)
(* no request has been served, the cache is empty, no message is pending,  *)
(* and every record is present with its permission rows.                   *)
(***************************************************************************)
NoResponse == Response("none", EmptyDict, 0, "")

InitErr ==
    /\ config \in [DEBUG : BOOLEAN, SHOW_STACKTRACE : BOOLEAN]
    /\ request = Idle
    /\ response = NoResponse
    /\ logged = <<>>

InitBoot ==
    /\ clock = 0
    /\ conf = 0
    /\ superseded = [v \in 0..MaxConf |-> -1]
    /\ cache = [k \in Keys |-> NoEntry]
    /\ session = [s \in Sessions |-> [pending |-> <<>>, n |-> 0]]
    /\ ctx = [s \in Sessions |-> NoCtx]
    /\ lastCall = [key |-> <<0, "">>, at |-> -1, value |-> NoValue, hit |-> FALSE]

InitDel ==
    /\ db = PKs
    /\ pvs = [vm \in PKs |-> MaxPvs]
    /\ view_menus = PKs
    /\ flashed = {}
    /\ batch = NoBatch
    /\ single = NoSingle

NoHeaderConfig ==
    [OVERRIDE_HTTP_HEADERS |-> EmptyDict, HTTP_HEADERS |-> EmptyDict,
     DEFAULT_HTTP_HEADERS |-> EmptyDict]

\* the header maps are empty unless the deployment sets them
InitHdr ==
    /\ header_config = NoHeaderConfig
    /\ headers = NoRequestHeaders

NoArguments == [msg |-> "", status |-> 500, payload |-> EmptyDict, link |-> NoLink]

\* no call in hand
InitBuild == built = [phase |-> "returned", args |-> NoArguments, resp |-> NotBuilt]

Init == InitErr /\ InitBoot /\ InitDel /\ InitHdr /\ InitBuild

Next == NextErr \/ NextBoot \/ NextFlash \/ NextDel \/ NextHdr \/ NextBuild

Spec == Init /\ [][Next]_vars

SpecErr == Init /\ [][NextErr]_vars

\* the other subsystems do not read the configuration flags
InitProd == Init /\ config = [DEBUG |-> FALSE, SHOW_STACKTRACE |-> FALSE]

SpecBoot == InitProd /\ [][NextBoot]_vars

SpecFlash == InitProd /\ [][NextFlash]_vars

SpecDel == InitProd /\ [][NextDel]_vars

\* a deployment with any header maps
InitConfigured ==
    /\ InitErr /\ InitBoot /\ InitDel
    /\ config = [DEBUG |-> FALSE, SHOW_STACKTRACE |-> FALSE]
    /\ header_config \in [OVERRIDE_HTTP_HEADERS : HeaderMaps, HTTP_HEADERS : HeaderMaps,
                          DEFAULT_HTTP_HEADERS : HeaderMaps]
    /\ headers = NoRequestHeaders
    /\ InitBuild

SpecHdr == InitConfigured /\ [][NextHdr]_vars

SpecBuild == InitProd /\ [][NextBuild]_vars

(***************************************************************************)
(* What the claims speak of, read off the request served and its response. *)
(***************************************************************************)
Raised == request.raised

Failed == request # Idle /\ Raised # NoException

Decorated == request.path \in {"handle_api_exception", "api+handle_api_exception"}

IsJson == response.kind = "json"

HasKey(k) == k \in DOMAIN response.body

\* the client accepts text/html (by name or by a wildcard range)
Browser == \E m \in request.accept : m \in {"text/html", "text/*", "*/*"}

HtmlFallback == Browser /\ ~config.DEBUG

StorageClasses == {"IntegrityError", "DatabaseError", "DataError"}

Html500 == response.kind = "html" /\ response.status = 500 /\ response.body = [asset |-> "500.html"]

OneError(type) ==
    /\ IsJson
    /\ HasKey("errors")
    /\ Len(response.body.errors) = 1
    /\ response.body.errors[1].error_type = type

CatchAllOutcome ==
    IF HtmlFallback THEN Html500
    ELSE /\ OneError("GENERIC_BACKEND_ERROR")
         /\ response.body.errors[1].level = "ERROR"
         /\ response.status = 500

FreeText(msg, status) ==
    /\ IsJson
    /\ response.status = status
    /\ response.mimetype = "application/json"
    /\ response.body = [error |-> msg]

----------------------------------------------------------------------------
(***************************************************************************)
(* C1.  A NoAuthorizationError raised by a handler wrapped as              *)
(* api(handle_api_exception(f)) ends in a response of status 401 whose     *)
(* JSON body has the key "error".                                          *)
(***************************************************************************)
C1_AuthFailureUnderBothDecoratorsIs401 ==
    (request.path = "api+handle_api_exception" /\ Raised.cls = "NoAuthorizationError")
        => (IsJson /\ response.status = 401 /\ HasKey("error"))

(***************************************************************************)
(* C2.  As claimed: every storage-layer exception (IntegrityError,         *)
(* DatabaseError, DataError) ends in status 422 with exactly one entry in  *)
(* `errors`, under handle_api_exception and at the application-wide        *)
(* handlers alike.                                                         *)
(***************************************************************************)
C2_StorageErrorIs422WithOneError ==
    (Failed /\ Raised.cls \in StorageClasses
            /\ (Decorated \/ request.path = "undecorated"))
        => (response.status = 422 /\ HasKey("errors") /\ Len(response.body.errors) = 1)

(***************************************************************************)
(* C2 as amended.  Caught by handle_api_exception, a storage-layer         *)
(* exception gives status 422 and the free-text body {"error": message},   *)
(* without an `errors` list; reaching the application-wide handlers it is  *)
(* handled by the catch-all: the 500 HTML page when the client accepts     *)
(* text/html and DEBUG is off, else status 500 and exactly one             *)
(* GENERIC_BACKEND_ERROR entry in `errors`.                                *)
(***************************************************************************)
C2_StorageErrorByPath ==
    (Failed /\ Raised.cls \in StorageClasses)
        => /\ Decorated => FreeText(Raised.message, 422)
           /\ request.path = "undecorated" => CatchAllOutcome

C2_Witness ==
    /\ request.path = "handle_api_exception"
    /\ Raised.cls = "IntegrityError"
    /\ response.status = 422

(***************************************************************************)
(* C3.  A generic unclassified exception reaching the catch-all handler:   *)
(* when the Accept header includes text/html and DEBUG is off the response *)
(* is the static 500 HTML asset with status 500; when the request accepts  *)
(* only application/json, or DEBUG is on, it is JSON with status 500 and   *)
(* exactly one error, of type GENERIC_BACKEND_ERROR and level ERROR.       *)
(***************************************************************************)
C3_UnclassifiedException ==
    (request.path = "undecorated" /\ Raised.cls \in {"Exception", "ValueError"})
        => /\ ("text/html" \in request.accept /\ ~config.DEBUG) => Html500
           /\ (request.accept = {"application/json"} \/ config.DEBUG)
                 => /\ OneError("GENERIC_BACKEND_ERROR")
                    /\ response.body.errors[1].level = "ERROR"
                    /\ response.status = 500

C3_Witness ==
    /\ request.path = "undecorated"
    /\ Raised.cls = "ValueError"
    /\ "text/html" \in request.accept
    /\ ~config.DEBUG
    /\ response.kind = "html"

(***************************************************************************)
(* C4.  As claimed: at the application-wide dispatcher every exception is  *)
(* handled by the handler of its most specific registered ancestor among   *)
(* SupersetErrorException, SupersetErrorsException, CSRFError,             *)
(* HTTPException, CommandException and Exception, and each category gets   *)
(* the outcome the spec lists for it: 401 for an authorization failure,    *)
(* the carried status and a free-text error for a generic domain           *)
(* exception, 422 for a storage integrity violation.                       *)
(***************************************************************************)
ClaimedRegistry ==
    { "SupersetErrorException", "SupersetErrorsException", "CSRFError",
      "HTTPException", "CommandException", "Exception" }

Subclass(c, d) == \E i \in 1..Len(Mro(c)) : Mro(c)[i] = d

MostSpecificAncestor(c) ==
    CHOOSE a \in ClaimedRegistry :
        /\ Subclass(c, a)
        /\ \A b \in ClaimedRegistry : Subclass(c, b) => Subclass(a, b)

\* what the handler registered for class a logs first
FirstLogOf(a) ==
    CASE a = "SupersetErrorException"  -> Log("warning", "SupersetErrorException")
      [] a = "SupersetErrorsException" -> Log("warning", "SupersetErrorsException")
      [] a = "CSRFError"               -> Log("warning", "Refresh CSRF token error")
      [] a = "HTTPException"           -> Log("warning", "HTTPException")
      [] a = "CommandException"        -> Log("warning", "CommandException")
      [] a = "Exception"               -> Log("exception", "ex")

Dispatched == Failed /\ request.path = "undecorated"

C4_RoutedToMostSpecificAncestor ==
    Dispatched
        => /\ logged # <<>>
           /\ Head(logged) = FirstLogOf(MostSpecificAncestor(Raised.cls))
           /\ response.kind \in {"json", "html", "redirect"}
           /\ Len(logged) = IF Raised.cls = "CSRFError" /\ request.is_json THEN 2 ELSE 1

C4_DispatcherRoutesEveryCategoryAsListed ==
    /\ C4_RoutedToMostSpecificAncestor
    /\ (Dispatched /\ Raised.cls = "NoAuthorizationError") => response.status = 401
    /\ (Dispatched /\ Raised.cls = "SupersetException")
           => FreeText(Raised.message, Raised.status)
    /\ (Dispatched /\ Raised.cls \in StorageClasses) => response.status = 422

(***************************************************************************)
(* C4 as amended.  The dispatcher is total and deterministic: every        *)
(* exception is handled by the handler of its most specific registered     *)
(* ancestor, the Exception handler being the backstop.  Multi-error,       *)
(* single-error (security-policy violations among them), transport,        *)
(* command and unclassified exceptions have a handler of their own;        *)
(* authorization failures, generic domain exceptions (SupersetException)   *)
(* and storage integrity violations have none and get the catch-all's      *)
(* outcome: the 500 HTML page, or status 500 with one                      *)
(* GENERIC_BACKEND_ERROR, not 401, the carried status or 422.              *)
(***************************************************************************)
C4_DispatcherRouting ==
    /\ C4_RoutedToMostSpecificAncestor
    /\ (Dispatched /\ Raised.cls \in {"NoAuthorizationError", "SupersetException"}
                                         \cup StorageClasses)
           => CatchAllOutcome
    /\ (Dispatched /\ Raised.cls \in {"SupersetErrorException", "SupersetSecurityException"})
           => /\ IsJson /\ response.status = Raised.status
              /\ response.body = [errors |-> <<Raised.errors[1]>>]
    /\ (Dispatched /\ Raised.cls = "SupersetErrorsException")
           => /\ IsJson /\ response.status = Raised.status
              /\ response.body = [errors |-> Raised.errors]
    /\ (Dispatched /\ Raised.cls \in {"CommandException", "CommandInvalidError"})
           => IF HtmlFallback THEN Html500
              ELSE OneError("GENERIC_COMMAND_ERROR") /\ response.status = Raised.status
    /\ (Dispatched /\ Raised.cls \in {"NotFound", "MethodNotAllowed", "InternalServerError"})
           => IF HtmlFallback /\ Raised.code \in {404, 500}
              THEN response.kind = "html" /\ response.status = Raised.code
              ELSE OneError("GENERIC_BACKEND_ERROR") /\ response.status = Raised.code
    /\ (Dispatched /\ Raised.cls \in {"Exception", "ValueError"}) => CatchAllOutcome

C4_Witness ==
    /\ Dispatched
    /\ Raised.cls = "CommandInvalidError"
    /\ Head(logged) = Log("warning", "CommandException")
    /\ IsJson
    /\ response.status = 422

(***************************************************************************)
(* C5.  As claimed: on every path (handle_api_exception or the             *)
(* application-wide handlers) a security-policy violation yields its one   *)
(* error at the carried status with its carried extra payload; a           *)
(* multi-error exception its list unchanged at the carried status; a       *)
(* single-error exception a singleton list at the carried status; a        *)
(* generic SupersetException the free-text {"error": msg} at the carried   *)
(* status, logged at error severity iff the status is 500 or more.         *)
(***************************************************************************)
LoggedAtErrorSeverity == \E i \in 1..Len(logged) : logged[i].level = "exception"

StructuredAtCarriedStatus(errors, payload) ==
    /\ IsJson
    /\ response.status = Raised.status
    /\ response.body = Update(payload, [errors |-> errors])

C5_SecurityPolicy == StructuredAtCarriedStatus(<<Raised.errors[1]>>, Raised.payload)

C5_MultiError == StructuredAtCarriedStatus(Raised.errors, EmptyDict)

C5_SingleError == StructuredAtCarriedStatus(<<Raised.errors[1]>>, EmptyDict)

C5_GenericDomain ==
    /\ FreeText(Raised.message, Raised.status)
    /\ LoggedAtErrorSeverity <=> Raised.status >= 500

OnEitherPath == Failed /\ (Decorated \/ request.path = "undecorated")

C5_DomainErrorsVerbatimOnEveryPath ==
    /\ (OnEitherPath /\ Raised.cls = "SupersetSecurityException") => C5_SecurityPolicy
    /\ (OnEitherPath /\ Raised.cls = "SupersetErrorsException") => C5_MultiError
    /\ (OnEitherPath /\ Raised.cls = "SupersetErrorException") => C5_SingleError
    /\ (OnEitherPath /\ Raised.cls = "SupersetException") => C5_GenericDomain

(***************************************************************************)
(* C5 as amended.  Multi-error and single-error exceptions are surfaced    *)
(* verbatim at their carried status on both paths.  Under                  *)
(* handle_api_exception a security-policy violation yields its one error   *)
(* with the carried status and extra payload, and a generic                *)
(* SupersetException the free-text {"error": msg} at the carried status,   *)
(* logged at error severity iff the status is 500 or more.  At the         *)
(* application-wide handlers a security-policy violation is handled as a   *)
(* single-error exception (carried status, extra payload dropped) and a    *)
(* generic SupersetException by the catch-all (500 HTML page, or status    *)
(* 500 with one GENERIC_BACKEND_ERROR), whatever status it carries.        *)
(***************************************************************************)
C5_DomainErrorsByPath ==
    /\ (OnEitherPath /\ Raised.cls = "SupersetErrorsException") => C5_MultiError
    /\ (OnEitherPath /\ Raised.cls = "SupersetErrorException") => C5_SingleError
    /\ (Failed /\ Decorated /\ Raised.cls = "SupersetSecurityException") => C5_SecurityPolicy
    /\ (Failed /\ Decorated /\ Raised.cls = "SupersetException") => C5_GenericDomain
    /\ (Dispatched /\ Raised.cls = "SupersetSecurityException") => C5_SingleError
    /\ (Dispatched /\ Raised.cls = "SupersetException")
           => CatchAllOutcome /\ LoggedAtErrorSeverity

C5_Witness ==
    /\ request.path = "handle_api_exception"
    /\ Raised.cls = "SupersetSecurityException"
    /\ Raised.payload = [tables |-> "t1"]
    /\ Raised.status = 403
    /\ response.status = 403
    /\ HasKey("tables")
    /\ HasKey("errors")

(***************************************************************************)
(* C6.  As claimed: whenever request handling ends in an exception and the *)
(* HTML fallback is not taken, the client gets a JSON response with a      *)
(* status outside 200..299 and a body whose `errors` list has at least one *)
(* entry.                                                                  *)
(***************************************************************************)
C6_AlwaysJsonWithStructuredError ==
    (Failed /\ response.kind # "html")
        => /\ IsJson
           /\ response.status \notin 200..299
           /\ HasKey("errors")
           /\ Len(response.body.errors) >= 1

(***************************************************************************)
(* C6 as amended.  Whenever request handling ends in an exception and      *)
(* neither the HTML fallback nor the CSRF redirect to the login page is    *)
(* taken, the client gets a JSON response with a status outside 200..299   *)
(* (the exceptions carrying none in that range).  The body holds an        *)
(* `errors` list when an application-wide handler built it or when         *)
(* handle_api_exception caught a SupersetSecurityException,                *)
(* SupersetErrorsException or SupersetErrorException; the list has as many *)
(* entries as the exception carried, so at least one unless a              *)
(* SupersetErrorsException carried none.  In every other case (the api     *)
(* decorator, the remaining branches of handle_api_exception) the body is  *)
(* the free-text {"error": msg} without any structured entry.              *)
(***************************************************************************)
StructuredClasses ==
    {"SupersetSecurityException", "SupersetErrorsException", "SupersetErrorException"}

C6_JsonErrorShapeByPath ==
    (Failed /\ response.kind \notin {"html", "redirect"})
        => /\ IsJson
           /\ response.status \notin 200..299
           /\ IF Dispatched \/ (Decorated /\ Raised.cls \in StructuredClasses)
              THEN /\ HasKey("errors")
                   /\ ~HasKey("error")
                   /\ \/ Len(response.body.errors) >= 1
                      \/ Raised.cls = "SupersetErrorsException" /\ Raised.errors = <<>>
              ELSE /\ DOMAIN response.body = {"error"}

C6_Witness ==
    /\ request.path = "api"
    /\ Raised.cls = "SupersetErrorException"
    /\ IsJson
    /\ response.status = 500
    /\ HasKey("error")

(***************************************************************************)
(* C7.  cached_common_bootstrap_data(u, l): a call less than 60 seconds    *)
(* after the entry for (u, l) was stored returns the stored value without  *)
(* recomputing, whatever the configuration has become; a call for another  *)
(* locale or user returns a value computed for that key and leaves the     *)
(* entry of (u, l) alone; a call more than 60 seconds after the entry was  *)
(* stored recomputes from the current configuration; so no returned value  *)
(* reflects a configuration replaced more than 60 seconds before.          *)
(***************************************************************************)
CallOf(k) == lastCall' # lastCall /\ lastCall'.key = k

C7_HitWithinWindow ==
    \A k \in Keys :
        (CallOf(k) /\ cache[k] # NoEntry /\ clock - cache[k].at < 60)
            => /\ lastCall'.hit
               /\ lastCall'.value = cache[k].value
               /\ cache' = cache

C7_RecomputeAfterWindow ==
    \A k \in Keys :
        (CallOf(k) /\ cache[k] # NoEntry /\ clock - cache[k].at > 60)
            => /\ ~lastCall'.hit
               /\ lastCall'.value = [conf |-> conf, user |-> k[1], locale |-> k[2]]
               /\ cache'[k] = [value |-> lastCall'.value, at |-> clock]

C7_OtherKeysUntouched ==
    \A k \in Keys : CallOf(k) => \A k2 \in Keys \ {k} : cache'[k2] = cache[k2]

C7_ValueIsOfItsKey ==
    lastCall.at >= 0
        => /\ lastCall.value.user = lastCall.key[1]
           /\ lastCall.value.locale = lastCall.key[2]

C7_BoundedStaleness ==
    lastCall.at >= 0
        => \/ superseded[lastCall.value.conf] = -1
           \/ lastCall.at - superseded[lastCall.value.conf] <= 60

C7_MemoisedForSixtySeconds ==
    /\ [](C7_ValueIsOfItsKey /\ C7_BoundedStaleness)
    /\ [][C7_HitWithinWindow /\ C7_RecomputeAfterWindow /\ C7_OtherKeysUntouched]_vars

\* a hit that returns a value computed before the configuration changed, while
\* another locale of the same user holds an entry of its own
C7_Witness ==
    /\ lastCall.hit
    /\ lastCall.value.conf < conf
    /\ lastCall.at - cache[lastCall.key].at = 30
    /\ \E l \in Locales :
          /\ l # lastCall.key[2]
          /\ cache[<<lastCall.key[1], l>>] # NoEntry
          /\ cache[<<lastCall.key[1], l>>].value.conf = conf

(***************************************************************************)
(* C8.  As claimed: with a flash message pending, the first                *)
(* common_bootstrap_payload() of a request returns a non-empty             *)
(* flash_messages list and the second call in the same request an empty    *)
(* one; and no message reaches another request through the cache.          *)
(***************************************************************************)
FlashesOf(s, i) == ctx[s].payloads[i].flash_messages

Elements(seq) == {seq[i] : i \in 1..Len(seq)}

C8_NeverCached ==
    /\ \A k \in Keys : "flash_messages" \notin DOMAIN cache[k].value
    /\ \A s \in Sessions : \A i \in 1..Len(ctx[s].payloads) :
           \A m \in Elements(FlashesOf(s, i)) : m.owner = s

C8_SecondCallInRequestIsEmpty ==
    /\ C8_NeverCached
    /\ \A s \in Sessions :
           (Len(ctx[s].payloads) >= 2 /\ FlashesOf(s, 1) # <<>>) => FlashesOf(s, 2) = <<>>

(***************************************************************************)
(* C8 as amended.  Flash messages are never cached and are read from the   *)
(* session once per request: the first common_bootstrap_payload() of a     *)
(* request removes the pending messages from the session and returns them, *)
(* every further call in the same request returns that same list (not an   *)
(* empty one), and a later request of the session does not get them again; *)
(* no message reaches another session's request through the                *)
(* (user_id, locale)-keyed cache entry.                                    *)
(***************************************************************************)
C8_ReadOncePerRequest ==
    /\ C8_NeverCached
    /\ \A s \in Sessions : \A i \in 1..Len(ctx[s].payloads) :
           FlashesOf(s, i) = FlashesOf(s, 1)
    /\ \A s \in Sessions :
           ctx[s].read => Elements(ctx[s].flashes) \cap Elements(session[s].pending) = {}
    /\ \A s \in Sessions :
           Len(ctx[s].payloads) >= 1 => FlashesOf(s, 1) = ctx[s].flashes

C8_Witness ==
    \E s \in Sessions, t \in Sessions :
        /\ s # t
        /\ Len(ctx[s].payloads) = 2
        /\ FlashesOf(s, 1) # <<>>
        /\ FlashesOf(s, 2) = FlashesOf(s, 1)
        /\ session[t].pending # <<>>
        /\ ctx[t].locale = ctx[s].locale
        /\ Len(ctx[t].payloads) = 1
        /\ FlashesOf(t, 1) = <<>>

(***************************************************************************)
(* C9.  As claimed: muldelete over a non-empty batch of existing records   *)
(* in which the pre_delete hook of exactly one record k fails deletes      *)
(* every other record of the batch, those after k included, keeps k,       *)
(* flashes an error for k, and returns the redirect without raising.       *)
(***************************************************************************)
OneHookFails ==
    /\ batch.result # "idle"
    /\ batch.items # <<>>
    /\ Cardinality(batch.failing) = 1

KeptWithError(pk) == pk \in db /\ <<pk, "pre_delete failed">> \in flashed

C9_AllOthersDeleted ==
    OneHookFails
        => /\ batch.result = "redirect"
           /\ \A pk \in Elems(batch.items) :
                  IF pk \in batch.failing THEN KeptWithError(pk) ELSE pk \notin db

(***************************************************************************)
(* C9 as amended.  Under the same conditions muldelete returns the         *)
(* redirect without raising, keeps k and flashes an error for k, and       *)
(* deletes every other record of the batch for which datamodel.delete      *)
(* succeeds, those after k included; a record for which datamodel.delete   *)
(* returns failure is kept as well and the datamodel's message is flashed  *)
(* for it.                                                                 *)
(***************************************************************************)
C9_OthersDeletedWhenDeleteSucceeds ==
    OneHookFails
        => /\ batch.result = "redirect"
           /\ \A pk \in Elems(batch.items) :
                  IF pk \in batch.failing THEN KeptWithError(pk)
                  ELSE IF pk \in batch.undeletable
                  THEN pk \in db /\ <<pk, "delete failed">> \in flashed
                  ELSE pk \notin db /\ <<pk, "deleted">> \in flashed

C9_Witness ==
    /\ Len(batch.items) = 3
    /\ batch.failing = {batch.items[2]}
    /\ batch.undeletable = {}
    /\ batch.result = "redirect"
    /\ batch.items[1] \notin db
    /\ batch.items[2] \in db
    /\ batch.items[3] \notin db

(***************************************************************************)
(* C10.  After any _delete a record and its access-control entries agree:  *)
(* a deleted record has lost all the permission-view rows of its view-menu *)
(* and the view-menu itself; a record whose deletion did not happen        *)
(* (pre_delete failed, or datamodel.delete returned failure) keeps them    *)
(* all.  No state has the record gone with permission entries left, or the *)
(* entries gone with the record left.                                      *)
(***************************************************************************)
PermissionsIntact(pk) == pvs[get_perm(pk)] = MaxPvs /\ get_perm(pk) \in view_menus

PermissionsGone(pk) == pvs[get_perm(pk)] = 0 /\ get_perm(pk) \notin view_menus

HeadersApplied == headers.phase = "sent"

Override == header_config.OVERRIDE_HTTP_HEADERS

Custom == header_config.HTTP_HEADERS

Defaults == header_config.DEFAULT_HTTP_HEADERS

\* the lines the hook added for name k, after those the view had set
AddedFor(k) == SubSeq(headers.after[k], Len(headers.before[k]) + 1, Len(headers.after[k]))

\* for a name in both maps, the line added carries the OVERRIDE_HTTP_HEADERS value
C11_OverrideWinsCollision ==
    HeadersApplied =>
        \A k \in (DOMAIN Override) \cap (DOMAIN Custom) : AddedFor(k) = <<Override[k]>>

\* a default is set exactly for the names no earlier step has set, and replaces nothing
C11_DefaultsOnlyFill ==
    HeadersApplied =>
        \A k \in DOMAIN Defaults :
            IF headers.before[k] = <<>> /\ k \notin (DOMAIN Override) \cup (DOMAIN Custom)
            THEN headers.after[k] = <<Defaults[k]>>
            ELSE /\ Len(headers.after[k]) = Len(headers.before[k]) + Len(AddedFor(k))
                 /\ SubSeq(headers.after[k], 1, Len(headers.before[k])) = headers.before[k]
                 /\ AddedFor(k) # <<>> => k \in (DOMAIN Override) \cup (DOMAIN Custom)

\* C11.  After every request apply_http_headers merges OVERRIDE_HTTP_HEADERS and
\* HTTP_HEADERS into the response headers so that for a key present in both maps
\* the OVERRIDE_HTTP_HEADERS value is the one sent; then each DEFAULT_HTTP_HEADERS
\* key is set only if not already present, never replacing an existing value.
\* The code merges {**OVERRIDE_HTTP_HEADERS, **HTTP_HEADERS}, so for a shared key
\* the HTTP_HEADERS value is the one sent.
C11_OverrideWinsThenDefaultsFill == C11_OverrideWinsCollision /\ C11_DefaultsOnlyFill


(***************************************************************************)
(* json_error_response (the free-text response builder).                   *)
(***************************************************************************)
Built == built.phase = "returned" /\ built.resp # NotBuilt

\* the body is {"error": message} extended with every key of extra and, iff a
\* link is given, the key "link" with that value
MessageExtendedBy(body, a) ==
    LET withExtra == Update([error |-> a.msg], a.payload)
    IN  /\ "error" \in DOMAIN body
        /\ \A k \in DOMAIN a.payload : k \in DOMAIN body
        /\ body = IF a.link # NoLink THEN Update(withExtra, [link |-> a.link])
                  ELSE withExtra

\* C12.  json_error_response(message, status, extra, link) produces, for every
\* combination of arguments, a response with the given status, content type
\* application/json and the body {"error": message} extended with every key of
\* extra and, iff link is given, the key "link"; the key "error" is present also
\* when a non-empty extra is supplied.
\* The code uses a non-empty extra as the whole body (`if not payload`), so the
\* message is dropped and the body has no "error" key unless extra brings one.
C12_ErrorKeyWithEveryExtra ==
    Built =>
        /\ built.resp.status = built.args.status
        /\ built.resp.mimetype = "application/json"
        /\ ("error" \in DOMAIN built.args.payload \/ MessageExtendedBy(built.resp.body, built.args))
        /\ "error" \in DOMAIN built.resp.body
        /\ (built.args.link = NoLink /\ "link" \notin DOMAIN built.args.payload)
               => "link" \notin DOMAIN built.resp.body


(***************************************************************************)
(* Command-layer exceptions at the dispatcher (show_command_errors).       *)
(***************************************************************************)
CommandDispatched == Dispatched /\ Subclass(Raised.cls, "CommandException")

LevelOf(status) ==
    IF status < 400 THEN "INFO" ELSE IF status < 500 THEN "WARNING" ELSE "ERROR"

\* JSON at the exception's own status with one GENERIC_COMMAND_ERROR
C13_CommandErrorAsJson ==
    /\ OneError("GENERIC_COMMAND_ERROR")
    /\ response.status = Raised.status
    /\ response.body.errors[1].level = LevelOf(Raised.status)
    /\ response.body.errors[1].extra =
           IF Subclass(Raised.cls, "CommandInvalidError") THEN Raised.normalized ELSE EmptyDict

\* C13.  For a CommandException reaching the dispatcher the static HTML fallback
\* is returned only when the client accepts HTML, DEBUG is off and the exception's
\* status is 500 (a command exception carrying 403 or 422 is not turned into the
\* 500 page); otherwise the response is JSON at the exception's own status with
\* exactly one GENERIC_COMMAND_ERROR, its level following the status and its extra
\* the validation detail iff the exception is a CommandInvalidError.
\* show_command_errors does not look at the status before taking the fallback.
C13_CommandFallbackOnlyAt500 ==
    CommandDispatched =>
        IF HtmlFallback /\ Raised.status = 500 THEN Html500 ELSE C13_CommandErrorAsJson


(***************************************************************************)
(* The api decorator as the outer layer.                                   *)
(***************************************************************************)
UnderApi == request.path \in {"api", "api+handle_api_exception"}

\* what api answers on its own: the free-text body and one log entry
ApiErrorResponse(status, level) ==
    /\ response = Response("json", [error |-> get_error_msg], status, "application/json")
    /\ Len(logged) = 1
    /\ logged[1].level = level

\* C14.  A handler wrapped by api never lets an exception escape and never returns
\* anything but a Response: for every exception (subclass of Exception) raised by
\* the handler api wraps, the wrapper returns a JSON error response, 401 for an
\* authorization failure and 500 otherwise, and no application-wide handler
\* runs; when the wrapped handler returns normally (the business handler itself,
\* or the inner handle_api_exception having turned the exception into a
\* response) that response is returned unchanged.
C14_ApiNeverLetsExceptionEscape ==
    /\ (request.path = "api" /\ Failed)
          => IF Subclass(Raised.cls, "NoAuthorizationError")
             THEN ApiErrorResponse(401, "warning")
             ELSE ApiErrorResponse(500, "exception")
    /\ (UnderApi /\ request # Idle /\ Raised = NoException)
          => response = json_success("{}", 200) /\ logged = <<>>
    /\ (request.path = "api+handle_api_exception" /\ Failed)
          => /\ response = handle_api_exception(f(Raised)).resp
             /\ logged = handle_api_exception(f(Raised)).log
    /\ (UnderApi /\ request # Idle)
          => response.kind = "json"

C14_Witness ==
    /\ request.path = "api"
    /\ Raised.cls = "ValueError"
    /\ IsJson
    /\ response.status = 500
    /\ response.body = [error |-> get_error_msg]

=============================================================================
